---- MODULE Spec2Model ----
(***************************************************************************)
(* House price pipeline: the training script (preprocess_and_train.py)     *)
(* and the Streamlit inference script (app.py), bound together by the six  *)
(* files of the artifacts directory.                                       *)
(*                                                                         *)
(* Numbers are exact rationals <<n, d>> with d > 0; <<0, 0>> is NaN.       *)
(* A standardized value is <<n, d, vn, vd>>: the centred value n/d divided *)
(* by the square root of the fitted variance vn/vd (by 1 when it is 0).    *)
(* A data frame is [columns |-> sequence of names, rows |-> sequence of    *)
(* functions from the names to cell values].                               *)
(***************************************************************************)
EXTENDS Integers, Sequences, FiniteSets, TLC

VARIABLES csv, tpc, df, X, y, te, scaler, num_cols_scaled, rf, disk,
          cache, loads, startup, form_shown, run, form, X_inf, X_model,
          transform_cols, pred, probe

vars == <<csv, tpc, df, X, y, te, scaler, num_cols_scaled, rf, disk,
          cache, loads, startup, form_shown, run, form, X_inf, X_model,
          transform_cols, pred, probe>>

train_vars == <<csv, tpc, df, X, y, te, scaler, num_cols_scaled, rf>>

app_vars == <<cache, loads, startup, form_shown, run, form, X_inf, X_model,
              transform_cols, pred>>

(***************************************************************************)
(* Bounds of the model.                                                    *)
(***************************************************************************)
MaxRows == 2

MaxImputeRows == 3

MaxVal == 2

MaxPrice == 2

(***************************************************************************)
(* Floating point values as exact rationals.                               *)
(***************************************************************************)
NaN == <<0, 0>>

IsNaN(v) == v[2] = 0

Abs(n) == IF n < 0 THEN -n ELSE n

RECURSIVE GCD(_, _)
GCD(a, b) == IF b = 0 THEN a ELSE GCD(b, a % b)

Rat(n, d) ==
    IF d = 0 THEN NaN
    ELSE LET g == GCD(Abs(n), Abs(d))
             s == IF d < 0 THEN -1 ELSE 1
         IN  <<(s * n) \div g, (s * d) \div g>>

Num(n) == <<n, 1>>

RatAdd(a, b) == IF IsNaN(a) \/ IsNaN(b) THEN NaN
                ELSE Rat(a[1] * b[2] + b[1] * a[2], a[2] * b[2])

RatSub(a, b) == IF IsNaN(a) \/ IsNaN(b) THEN NaN
                ELSE Rat(a[1] * b[2] - b[1] * a[2], a[2] * b[2])

RatMul(a, b) == IF IsNaN(a) \/ IsNaN(b) THEN NaN
                ELSE Rat(a[1] * b[1], a[2] * b[2])

RatDiv(a, b) == IF IsNaN(a) \/ IsNaN(b) THEN NaN
                ELSE Rat(a[1] * b[2], a[2] * b[1])

RatLess(a, b) == a[1] * b[2] < b[1] * a[2]

RECURSIVE SeqSum(_)
SeqSum(s) == IF s = <<>> THEN Num(0) ELSE RatAdd(Head(s), SeqSum(Tail(s)))

\* np.mean / Series.mean over a sequence without NaN: NaN when it is empty
Mean(s) == IF s = <<>> THEN NaN ELSE RatDiv(SeqSum(s), Num(Len(s)))

Range(s) == {s[i] : i \in DOMAIN s}

\* a sequence, and a function, given by a rule are evaluated once when built
Seq_(s) == s \o <<>>

Fn_(f) == f @@ <<>>

RECURSIVE Insert(_, _)
Insert(v, s) ==
    IF s = <<>> THEN <<v>>
    ELSE IF RatLess(Head(s), v) THEN <<Head(s)>> \o Insert(v, Tail(s))
    ELSE <<v>> \o s

RECURSIVE SortNums(_)
SortNums(s) == IF s = <<>> THEN <<>> ELSE Insert(Head(s), SortNums(Tail(s)))

\* the median taken as the lower of the two middle values
MedianLowerMiddle(series) ==
    LET vals == SortNums(SelectSeq(series, LAMBDA v : ~IsNaN(v)))
        n    == Len(vals)
    IN  IF n = 0 THEN NaN ELSE vals[(n + 1) \div 2]

\* Series.median(): NaN skipped, NaN for an all-NaN (or empty) series
Median(series) ==
    LET vals == SortNums(SelectSeq(series, LAMBDA v : ~IsNaN(v)))
        n    == Len(vals)
    IN  IF n = 0 THEN NaN
        ELSE IF n % 2 = 1 THEN vals[(n + 1) \div 2]
        ELSE RatDiv(RatAdd(vals[n \div 2], vals[n \div 2 + 1]), Num(2))

(***************************************************************************)
(* Data frames.                                                            *)
(***************************************************************************)
EmptyFrame == [columns |-> <<>>, rows |-> <<>>]

Column(fr, c) == Seq_([i \in DOMAIN fr.rows |-> fr.rows[i][c]])

HasColumn(fr, c) == c \in Range(fr.columns)

\* df[c] = vals : replaces the column in place, or appends a new one
SetColumn(fr, c, vals) ==
    [columns |-> IF HasColumn(fr, c) THEN fr.columns ELSE Append(fr.columns, c),
     rows    |-> Seq_([i \in DOMAIN fr.rows |->
                    Fn_([k \in DOMAIN fr.rows[i] \cup {c} |->
                        IF k = c THEN vals[i] ELSE fr.rows[i][k]])])]

\* df.drop(columns=cs)
DropColumns(fr, cs) ==
    [columns |-> SelectSeq(fr.columns, LAMBDA c : c \notin cs),
     rows    |-> Seq_([i \in DOMAIN fr.rows |->
                    Fn_([k \in DOMAIN fr.rows[i] \ cs |-> fr.rows[i][k]])])]

(***************************************************************************)
(* The raw data of data.csv. A cell is <<"null">>, <<"text", s>> (text     *)
(* that is no number and no date), <<"num", v>> or <<"date", yr, mo>>.     *)
(***************************************************************************)
KEEP_COLS == <<"Suburb", "Rooms", "Type", "Price", "Date",
               "Distance", "Bathroom", "Car", "Landsize", "BuildingArea", "YearBuilt">>

numeric_cols == <<"Rooms", "Distance", "Bathroom", "Car", "Landsize", "BuildingArea", "YearBuilt">>

NullCell == <<"null">>

IsNull(cell) == cell[1] = "null"

\* pd.to_numeric(errors="coerce") of one cell
to_numeric(cell) == IF cell[1] = "num" THEN Num(cell[2]) ELSE NaN

\* str.strip() on the texts the model draws
Strip(s) == CASE s = " h" -> "h"
              [] s = "A " -> "A"
              [] OTHER    -> s

\* astype(str).str.strip() of one cell: a null becomes the text "nan"
astype_str_strip(cell) == IF cell[1] = "text" THEN Strip(cell[2]) ELSE "nan"

\* pd.to_datetime(errors="coerce") then .dt.year / .dt.month
dt_year(cell) == IF cell[1] = "date" THEN Num(cell[2]) ELSE NaN

dt_month(cell) == IF cell[1] = "date" THEN Num(cell[3]) ELSE NaN

\* lines 38-43: read, add the absent KEEP_COLS as null, keep the rows with a Price
LoadFrame(file) ==
    LET full(r) == [c \in Range(KEEP_COLS) |->
                      IF c \in file.columns THEN r[c] ELSE NullCell]
        rows    == Seq_([i \in DOMAIN file.rows |-> Fn_(full(file.rows[i]))])
    IN  [columns |-> KEEP_COLS,
         rows    |-> SelectSeq(rows, LAMBDA r : ~IsNull(r["Price"]))]

\* lines 45-50
CleanFrame(fr) ==
    LET f1 == SetColumn(fr, "Suburb",
                [i \in DOMAIN fr.rows |-> astype_str_strip(fr.rows[i]["Suburb"])])
        f2 == SetColumn(f1, "Type",
                [i \in DOMAIN fr.rows |-> astype_str_strip(fr.rows[i]["Type"])])
        f3 == SetColumn(f2, "Year",
                [i \in DOMAIN fr.rows |-> dt_year(fr.rows[i]["Date"])])
    IN  SetColumn(f3, "Month",
                [i \in DOMAIN fr.rows |-> dt_month(fr.rows[i]["Date"])])

MissingName(col) == col \o "_missing"

\* lines 54-59: the body of the imputation loop for one column
ImputeColumn(fr, col) ==
    LET series  == Seq_([i \in DOMAIN fr.rows |-> to_numeric(fr.rows[i][col])])
        missing == [i \in DOMAIN fr.rows |-> IF IsNaN(series[i]) THEN Num(1) ELSE Num(0)]
        m0      == Median(series)
        med     == IF IsNaN(m0) THEN Num(0) ELSE m0
        filled  == [i \in DOMAIN fr.rows |-> IF IsNaN(series[i]) THEN med ELSE series[i]]
    IN  SetColumn(SetColumn(fr, MissingName(col), missing), col, filled)

RECURSIVE ImputeAll(_, _)
ImputeAll(fr, cols) ==
    IF cols = <<>> THEN fr ELSE ImputeAll(ImputeColumn(fr, Head(cols)), Tail(cols))

(***************************************************************************)
(* Target encoding of Suburb.                                              *)
(***************************************************************************)
smoothing_default == 50

\* a missing value of an object column
NA == "<NA>"

\* cat.fillna("Unknown").astype(str)
fillna_unknown(c) == IF c = NA THEN "Unknown" ELSE c

\* the table of the plain per-category means
compute_te_map_unsmoothed(cat, yv, smoothing) ==
    LET key   == Seq_([i \in DOMAIN cat |-> fillna_unknown(cat[i])])
        ys(k) == SelectSeq(Seq_([i \in DOMAIN key |-> IF key[i] = k THEN yv[i] ELSE NaN]),
                           LAMBDA v : ~IsNaN(v))
    IN  [mapping     |-> Fn_([k \in Range(key) |-> Mean(ys(k))]),
         global_mean |-> Mean(yv),
         smoothing   |-> Num(smoothing)]

\* lines 25-30
compute_te_map(cat, yv, smoothing) ==
    LET gmean == Mean(yv)
        key   == Seq_([i \in DOMAIN cat |-> fillna_unknown(cat[i])])
        idx(k) == {i \in DOMAIN key : key[i] = k}
        RECURSIVE SumOver(_)
        SumOver(S) == IF S = {} THEN Num(0)
                      ELSE LET i == CHOOSE j \in S : TRUE
                           IN  RatAdd(yv[i], SumOver(S \ {i}))
        count(k) == Num(Cardinality(idx(k)))
        mean(k)  == RatDiv(SumOver(idx(k)), count(k))
        enc(k)   == RatDiv(RatAdd(RatMul(count(k), mean(k)), RatMul(Num(smoothing), gmean)),
                           RatAdd(count(k), Num(smoothing)))
    IN  [mapping     |-> Fn_([k \in Range(key) |-> enc(k)]),
         global_mean |-> gmean,
         smoothing   |-> Num(smoothing)]

\* the lookup without the fillna
apply_te_unfilled(c, tab) ==
    IF c \in DOMAIN tab.mapping THEN tab.mapping[c] ELSE NaN

\* lines 32-35, for one value of the series: cat.map(mp).fillna(gmean)
apply_te(c, tab) ==
    LET mapped == IF c \in DOMAIN tab.mapping THEN tab.mapping[c] ELSE NaN
    IN  IF IsNaN(mapped) THEN tab.global_mean ELSE mapped

UnfitTE == [mapping |-> <<>>, global_mean |-> NaN, smoothing |-> NaN]

(***************************************************************************)
(* One-hot encoding of Type.                                               *)
(***************************************************************************)
\* Python's order of the strings the model draws
StrOrder == <<" h", "A", "A ", "B", "Unknown", "br", "h", "nan", "t", "u">>

\* sorted(S)
SortStrs(S) == SelectSeq(StrOrder, LAMBDA s : s \in S)

DummyName(prefix, level) == prefix \o "_" \o level

\* line 70: pd.get_dummies(X, columns=[col], drop_first=True)
get_dummies(fr, col) ==
    LET levels == SortStrs(Range(Column(fr, col)))
        kept   == IF levels = <<>> THEN <<>> ELSE Tail(levels)
        names  == Seq_([j \in DOMAIN kept |-> DummyName(col, kept[j])])
        rest   == DropColumns(fr, {col})
    IN  [columns |-> rest.columns \o names,
         rows    |-> Seq_([i \in DOMAIN fr.rows |->
                        Fn_([k \in DOMAIN rest.rows[i] \cup Range(names) |->
                            IF k \in DOMAIN rest.rows[i] THEN rest.rows[i][k]
                            ELSE IF \E j \in DOMAIN kept :
                                      names[j] = k /\ kept[j] = fr.rows[i][col]
                                 THEN Num(1) ELSE Num(0)])])]

(***************************************************************************)
(* StandardScaler.                                                         *)
(***************************************************************************)
UnfitScaler == [feature_names_in_ |-> <<>>, n_features_in_ |-> 0,
                mean_ |-> <<>>, var_ |-> <<>>]

\* StandardScaler.fit on the named columns of a frame with at least one row
scaler_fit(fr, cols) ==
    LET mu(c)  == Mean(Column(fr, c))
        sq(c)  == Seq_([i \in DOMAIN fr.rows |->
                     RatMul(RatSub(fr.rows[i][c], mu(c)), RatSub(fr.rows[i][c], mu(c)))])
    IN  [feature_names_in_ |-> cols,
         n_features_in_    |-> Len(cols),
         mean_             |-> Seq_([j \in DOMAIN cols |-> mu(cols[j])]),
         var_              |-> Seq_([j \in DOMAIN cols |-> Mean(sq(cols[j]))])]

\* (v - mean) / scale, the scale kept as the variance it is the root of
Standardize(v, mean, var) ==
    LET c == RatSub(v, mean)
    IN  IF IsNaN(c) \/ IsNaN(var) THEN <<0, 0, 0, 0>>
        ELSE IF var[1] = 0 THEN <<c[1], c[2], 1, 1>>
        ELSE <<c[1], c[2], var[1], var[2]>>

\* X[cols] = scaler.transform(X[cols])
scaler_transform(sc, fr, cols) ==
    [columns |-> fr.columns,
     rows    |-> Seq_([i \in DOMAIN fr.rows |->
                    Fn_([k \in DOMAIN fr.rows[i] |->
                        IF \E j \in DOMAIN cols : cols[j] = k
                        THEN LET j == CHOOSE j \in DOMAIN cols : cols[j] = k
                             IN  Standardize(fr.rows[i][k], sc.mean_[j], sc.var_[j])
                        ELSE fr.rows[i][k]])])]

(***************************************************************************)
(* The training script, preprocess_and_train.py.                           *)
(***************************************************************************)
UnfitModel == [feature_names_in_ |-> <<>>, n_features_in_ |-> 0, n_train_used |-> 0]

\* lines 38-59: the frame df after loading, cleaning and imputation
PreparedFrame(file) == ImputeAll(CleanFrame(LoadFrame(file)), numeric_cols)

\* lines 61-70: the matrix X before scaling, with the encoding table
EncodedMatrix(fr) ==
    LET yv  == Seq_([i \in DOMAIN fr.rows |-> to_numeric(fr.rows[i]["Price"])])
        X0  == DropColumns(fr, {"Price", "Date"})
        tab == compute_te_map(Column(X0, "Suburb"), yv, smoothing_default)
        X1  == SetColumn(X0, "Suburb_TE",
                 [i \in DOMAIN X0.rows |-> apply_te(X0.rows[i]["Suburb"], tab)])
        X2  == DropColumns(X1, {"Suburb"})
    IN  [y |-> yv, te |-> tab, X |-> get_dummies(X2, "Type")]

\* line 74
ScaledColumns(fr) == SelectSeq(numeric_cols, LAMBDA c : HasColumn(fr, c))

HasNaN(fr) == \E i \in DOMAIN fr.rows : \E k \in DOMAIN fr.rows[i] : IsNaN(fr.rows[i][k])

\* lines 72-75 on the encoded matrix: StandardScaler refuses a matrix with no
\* row, which ends the script at line 75 with X unscaled
ScaleMatrix(fr, enc, ncs, ok) ==
    [df |-> fr, y |-> enc.y, te |-> enc.te, num_cols_scaled |-> ncs,
     fitted |-> ok,
     scaler |-> IF ok THEN scaler_fit(enc.X, ncs) ELSE UnfitScaler,
     X      |-> IF ok THEN scaler_transform(scaler_fit(enc.X, ncs), enc.X, ncs) ELSE enc.X]

EncodeAndScale(fr, enc) == ScaleMatrix(fr, enc, ScaledColumns(enc.X), fr.rows # <<>>)

TrainedFrame(fr) == EncodeAndScale(fr, EncodedMatrix(fr))

\* lines 37-75 on one data.csv
Trained(file) == TrainedFrame(PreparedFrame(file))

Preprocess ==
    /\ tpc = "start"
    /\ \E t \in {Trained(csv)} :
           /\ df' = t.df
           /\ y' = t.y
           /\ te' = t.te
           /\ num_cols_scaled' = t.num_cols_scaled
           /\ scaler' = t.scaler
           /\ X' = t.X
           /\ tpc' = IF t.fitted THEN "split" ELSE "crashed"
    /\ UNCHANGED <<csv, rf, disk, probe>>
    /\ UNCHANGED app_vars

\* train_test_split(test_size=0.2): the test part is ceil(0.2 n) rows
TrainSize(n) == n - ((n + 4) \div 5)

\* RandomForestRegressor.fit on a matrix
model_fit(fr) ==
    [feature_names_in_ |-> fr.columns,
     n_features_in_    |-> Len(fr.columns),
     n_train_used      |-> TrainSize(Len(fr.rows))]

\* lines 77-100. The split refuses an empty training part. A forest handed NaN
\* either fits or raises, depending on the scikit-learn release installed.
FitEvaluate ==
    /\ tpc = "split"
    /\ \E raises \in BOOLEAN :
         LET fails == TrainSize(Len(X.rows)) = 0 \/ (HasNaN(X) /\ raises)
         IN  /\ tpc' = IF fails THEN "crashed" ELSE "save_model"
             /\ rf' = IF fails THEN rf ELSE model_fit(X)
    /\ UNCHANGED <<csv, df, X, y, te, scaler, num_cols_scaled, disk, probe>>
    /\ UNCHANGED app_vars

(***************************************************************************)
(* The artifacts directory.                                                *)
(***************************************************************************)
MODEL_PATH == "artifacts/rf_model.joblib"

COLUMNS_PATH == "artifacts/feature_columns.json"

SCALER_PATH == "artifacts/scaler.joblib"

NUMERIC_COLS_PATH == "artifacts/numeric_cols_scaled.json"

SUBURB_TE_PATH == "artifacts/suburb_te.json"

ALL_SUBURBS_PATH == "artifacts/all_suburbs.json"

ArtifactPaths == {MODEL_PATH, COLUMNS_PATH, SCALER_PATH, NUMERIC_COLS_PATH,
                  SUBURB_TE_PATH, ALL_SUBURBS_PATH}

Absent == [present |-> FALSE, data |-> <<>>]

File(data) == [present |-> TRUE, data |-> data]

EmptyDisk == [p \in ArtifactPaths |-> Absent]

\* lines 110-114: the table as written to suburb_te.json
SuburbTEJson(tab) ==
    [mapping     |-> Fn_([k \in DOMAIN tab.mapping |-> tab.mapping[k]]),
     global_mean |-> tab.global_mean,
     smoothing   |-> tab.smoothing]

\* line 115
AllSuburbs(fr) == SortStrs(Range(Column(fr, "Suburb")) \ {NA})

\* one joblib.dump / json.dump of lines 103-117
Save(from, to, path, data) ==
    /\ tpc = from
    /\ tpc' = to
    /\ disk' = [disk EXCEPT ![path] = File(data)]
    /\ UNCHANGED <<csv, df, X, y, te, scaler, num_cols_scaled, rf, probe>>
    /\ UNCHANGED app_vars

SaveModel == Save("save_model", "save_scaler", MODEL_PATH, rf)

SaveScaler == Save("save_scaler", "save_columns", SCALER_PATH, scaler)

SaveFeatureColumns == Save("save_columns", "save_numeric", COLUMNS_PATH, X.columns)

SaveNumericCols == Save("save_numeric", "save_te", NUMERIC_COLS_PATH, num_cols_scaled)

SaveSuburbTE == Save("save_te", "save_suburbs", SUBURB_TE_PATH, SuburbTEJson(te))

SaveAllSuburbs == Save("save_suburbs", "done", ALL_SUBURBS_PATH, AllSuburbs(df))

(***************************************************************************)
(* The inference script, app.py. One action is one run of the script.      *)
(***************************************************************************)
NoCache == [loaded |-> FALSE, model |-> UnfitModel, feature_columns |-> <<>>,
            scaler |-> UnfitScaler, numeric_cols_scaled |-> <<>>,
            suburb_te |-> UnfitTE, all_suburbs |-> <<>>]

\* a check of the model file alone
CanLoadModelOnly(d) == d[MODEL_PATH].present

\* lines 20-30: every open() and joblib.load() finds its file
CanLoad(d) == \A p \in ArtifactPaths : d[p].present

\* lines 19-30: the body of load_artifacts
ReadArtifacts(d) ==
    [loaded |-> TRUE,
     model |-> d[MODEL_PATH].data,
     feature_columns |-> d[COLUMNS_PATH].data,
     scaler |-> d[SCALER_PATH].data,
     numeric_cols_scaled |-> d[NUMERIC_COLS_PATH].data,
     suburb_te |-> d[SUBURB_TE_PATH].data,
     all_suburbs |-> d[ALL_SUBURBS_PATH].data]

\* load_artifacts without the cache
AlwaysRuns(c) == TRUE

\* line 18: st.cache_resource runs the body only while nothing is cached
BodyRuns(c) == ~c.loaded

\* lines 34-37
encode_suburb(suburb, SUBURB_TE) ==
    IF suburb \in DOMAIN SUBURB_TE.mapping
    THEN SUBURB_TE.mapping[suburb]
    ELSE SUBURB_TE.global_mean

\* line 44
SuburbOptions(ALL_SUBURBS) == IF ALL_SUBURBS # <<>> THEN ALL_SUBURBS ELSE <<"Unknown">>

\* line 45
TypeOptions == {"h", "t", "u"}

\* the values drawn for the number inputs of lines 46-52
RoomsInputs == {3}

BathroomInputs == {1}

CarInputs == {1}

LandsizeInputs == {0, 300}

BuildingAreaInputs == {120}

YearInputs == {2017}

FormInputs(ALL_SUBURBS) ==
    [suburb : Range(SuburbOptions(ALL_SUBURBS)), prop_type : TypeOptions,
     rooms : RoomsInputs, bathroom : BathroomInputs, car : CarInputs,
     landsize : LandsizeInputs, building_area : BuildingAreaInputs, year : YearInputs]

NoForm == [suburb |-> "", prop_type |-> "", rooms |-> 0, bathroom |-> 0, car |-> 0,
           landsize |-> 0, building_area |-> 0, year |-> 0]

\* lines 57-77
row_keys == <<"Rooms", "Distance", "Bathroom", "Car", "Landsize", "BuildingArea",
              "YearBuilt", "Year", "Month", "Rooms_missing", "Distance_missing",
              "Bathroom_missing", "Car_missing", "Landsize_missing",
              "BuildingArea_missing", "YearBuilt_missing", "Suburb_TE", "Type_t", "Type_u">>

FormRow(f, SUBURB_TE) ==
    Fn_([k \in Range(row_keys) |->
        CASE k = "Rooms"        -> Num(f.rooms)
          [] k = "Bathroom"     -> Num(f.bathroom)
          [] k = "Car"          -> Num(f.car)
          [] k = "Landsize"     -> Num(f.landsize)
          [] k = "BuildingArea" -> Num(f.building_area)
          [] k = "Year"         -> Num(f.year)
          [] k = "Landsize_missing"     -> IF f.landsize # 0 THEN Num(0) ELSE Num(1)
          [] k = "BuildingArea_missing" -> IF f.building_area # 0 THEN Num(0) ELSE Num(1)
          [] k = "Suburb_TE"    -> encode_suburb(f.suburb, SUBURB_TE)
          [] k = "Type_t"       -> IF f.prop_type = "t" THEN Num(1) ELSE Num(0)
          [] k = "Type_u"       -> IF f.prop_type = "u" THEN Num(1) ELSE Num(0)
          [] OTHER              -> Num(0)])

\* a selection of the persisted columns the row has, without the zero fill
reindex_present_only(row, FEATURE_COLUMNS) ==
    [columns |-> SelectSeq(FEATURE_COLUMNS, LAMBDA c : c \in DOMAIN row),
     rows    |-> << Fn_([k \in Range(FEATURE_COLUMNS) \cap DOMAIN row |-> row[k]]) >>]

\* line 79: pd.DataFrame([row]).reindex(columns=FEATURE_COLUMNS, fill_value=0)
reindex(row, FEATURE_COLUMNS) ==
    [columns |-> FEATURE_COLUMNS,
     rows    |-> << Fn_([k \in Range(FEATURE_COLUMNS) |->
                       IF k \in DOMAIN row THEN row[k] ELSE Num(0)]) >>]

\* the persisted list taken in the opposite order
TransformColumnsReversed(NUMERIC_COLS) ==
    Seq_([i \in DOMAIN NUMERIC_COLS |-> NUMERIC_COLS[Len(NUMERIC_COLS) + 1 - i]])

\* the columns line 82 selects for scaler.transform
TransformColumns(NUMERIC_COLS) == NUMERIC_COLS

\* line 32: load_artifacts() behind st.cache_resource
LoadArtifacts(c, d) ==
    IF BodyRuns(c)
    THEN IF CanLoad(d)
         THEN [ok |-> TRUE, art |-> ReadArtifacts(d), read |-> 1]
         ELSE [ok |-> FALSE, art |-> c, read |-> 0]
    ELSE [ok |-> TRUE, art |-> c, read |-> 0]

\* lines 18-54 with nothing submitted: load (or fail to), then show the form
RenderApp ==
    /\ \E l \in {LoadArtifacts(cache, disk)} :
           /\ cache' = l.art
           /\ loads' = loads + l.read
           /\ run' = IF l.ok THEN "form" ELSE "load_error"
           /\ form_shown' = l.ok
           /\ startup' = IF startup # "none" THEN startup
                         ELSE IF l.ok THEN "ok" ELSE "failed"
    /\ form' = NoForm
    /\ X_inf' = EmptyFrame
    /\ X_model' = EmptyFrame
    /\ transform_cols' = <<>>
    /\ pred' = FALSE
    /\ UNCHANGED <<disk, probe>>
    /\ UNCHANGED train_vars

\* lines 81-85 on the assembled vector Xr
ScaleAndPredict(Xr, cols, art, strict) ==
    LET sc    == art.scaler
        skip  == cols = <<>>
        keyok == Range(cols) \subseteq Range(Xr.columns)
        scok  == /\ keyok
                 /\ Len(cols) = sc.n_features_in_
                 /\ (strict => cols = sc.feature_names_in_)
        mdok  == /\ Len(Xr.columns) = art.model.n_features_in_
                 /\ (strict => Xr.columns = art.model.feature_names_in_)
        done  == (skip \/ scok) /\ mdok
    IN  [X_inf |-> Xr,
         transform_cols |-> IF skip \/ ~keyok THEN <<>> ELSE cols,
         X_model |-> IF ~done THEN EmptyFrame
                     ELSE IF skip THEN Xr ELSE scaler_transform(sc, Xr, cols),
         pred |-> done,
         run |-> IF ~(skip \/ scok) THEN "transform_error"
                 ELSE IF ~mdok THEN "predict_error" ELSE "predicted"]

\* the prediction block, lines 56-85, on the loaded artifacts
Prediction(f, art, strict) ==
    ScaleAndPredict(reindex(FormRow(f, art.suburb_te), art.feature_columns),
                    TransformColumns(art.numeric_cols_scaled), art, strict)

\* lines 18-85 on a submitted form, which is one the previous run showed.
\* scaler.transform and model.predict raise on a column count other than the
\* fitted one; on names other than the fitted ones they raise or only warn,
\* depending on the scikit-learn release installed.
SubmitForm ==
    /\ form_shown
    /\ \E f \in FormInputs(cache.all_suburbs), strict \in BOOLEAN :
         \E l \in {LoadArtifacts(cache, disk)} :
         \E p \in {IF l.ok THEN Prediction(f, l.art, strict) ELSE <<>>} :
             /\ cache' = l.art
             /\ loads' = loads + l.read
             /\ form_shown' = l.ok
             /\ form' = IF l.ok THEN f ELSE NoForm
             /\ X_inf' = IF l.ok THEN p.X_inf ELSE EmptyFrame
             /\ transform_cols' = IF l.ok THEN p.transform_cols ELSE <<>>
             /\ X_model' = IF l.ok THEN p.X_model ELSE EmptyFrame
             /\ pred' = (l.ok /\ p.pred)
             /\ run' = IF l.ok THEN p.run ELSE "load_error"
    /\ UNCHANGED <<disk, probe, startup>>
    /\ UNCHANGED train_vars

(***************************************************************************)
(* The function-level check of the two encoders on one category value.    *)
(***************************************************************************)
NoProbe == [c |-> "", train |-> NaN, infer |-> NaN]

ProbeValues == {"A", "C", "nan", "Unknown", NA}

\* apply_te on the fitted table, encode_suburb on the table as persisted
EncodeProbe ==
    /\ tpc # "start"
    /\ \E c \in ProbeValues :
         probe' = [c |-> c, train |-> apply_te(c, te),
                   infer |-> encode_suburb(c, SuburbTEJson(te))]
    /\ UNCHANGED <<disk>>
    /\ UNCHANGED train_vars
    /\ UNCHANGED app_vars

(***************************************************************************)
(* The data drawn for data.csv.                                            *)
(***************************************************************************)
TextCell(s) == <<"text", s>>

NumCell(v) == <<"num", v>>

DateCell(yr, mo) == <<"date", yr, mo>>

BadCell == TextCell("n/a")

SaleDate == DateCell(2017, 3)

\* one line of data.csv; nums gives the cell of each numeric column
RawRow(suburb, type, price, date, nums) ==
    Fn_([c \in Range(KEEP_COLS) |->
        CASE c = "Suburb" -> suburb
          [] c = "Type"   -> type
          [] c = "Price"  -> price
          [] c = "Date"   -> date
          [] OTHER        -> nums[c]])

AllNums(cell) == [c \in Range(numeric_cols) |-> cell]

RECURSIVE SeqsUpTo(_, _)
SeqsUpTo(S, n) ==
    IF n = 0 THEN {<<>>}
    ELSE LET shorter == SeqsUpTo(S, n - 1)
         IN  shorter \cup {Append(q, e) : q \in {r \in shorter : Len(r) = n - 1}, e \in S}

DataFile(rows) == [columns |-> Range(KEEP_COLS), rows |-> rows]

InitTraining ==
    /\ tpc = "start"
    /\ df = EmptyFrame
    /\ X = EmptyFrame
    /\ y = <<>>
    /\ te = UnfitTE
    /\ scaler = UnfitScaler
    /\ num_cols_scaled = <<>>
    /\ rf = UnfitModel

InitApp ==
    /\ cache = NoCache
    /\ loads = 0
    /\ startup = "none"
    /\ form_shown = FALSE
    /\ run = "none"
    /\ form = NoForm
    /\ X_inf = EmptyFrame
    /\ X_model = EmptyFrame
    /\ transform_cols = <<>>
    /\ pred = FALSE
    /\ probe = NoProbe

(***************************************************************************)
(* Spec: one training run beside one inference process. The directory may  *)
(* hold the artifacts of an earlier run, whole or with one file absent.    *)
(***************************************************************************)
GoodRow(suburb, type, n) == RawRow(TextCell(suburb), type, NumCell(n), SaleDate, AllNums(NumCell(n)))

\* the kinds of line the main specification draws; Suburb, Price and the
\* numeric columns are varied in SpecTE and SpecImpute
MainRows ==
    <<GoodRow("A", TextCell("br"), 1),
      GoodRow("A", TextCell("h"), 2),
      RawRow(TextCell("A "), TextCell(" h"), NumCell(1), NullCell, AllNums(NumCell(1))),
      GoodRow("A", NullCell, 1),
      GoodRow("B", TextCell("t"), 3),
      GoodRow("A", TextCell("u"), 1)>>

\* the subsequences of s of at most n elements
RECURSIVE SubSeqsUpTo(_, _)
SubSeqsUpTo(s, n) ==
    IF s = <<>> \/ n = 0 THEN {<<>>}
    ELSE SubSeqsUpTo(Tail(s), n) \cup
         {<<Head(s)>> \o q : q \in SubSeqsUpTo(Tail(s), n - 1)}

EarlierCsv ==
    DataFile(<<RawRow(TextCell("B"), TextCell("h"), NumCell(2), SaleDate, AllNums(NumCell(2))),
               RawRow(TextCell("B"), TextCell("u"), NumCell(1), SaleDate, AllNums(NumCell(1)))>>)

\* the six files a complete run over a data.csv leaves
ArtifactsOf(t) ==
    [p \in ArtifactPaths |->
       File(CASE p = MODEL_PATH        -> model_fit(t.X)
              [] p = SCALER_PATH       -> t.scaler
              [] p = COLUMNS_PATH      -> t.X.columns
              [] p = NUMERIC_COLS_PATH -> t.num_cols_scaled
              [] p = SUBURB_TE_PATH    -> SuburbTEJson(t.te)
              [] p = ALL_SUBURBS_PATH  -> AllSuburbs(t.df))]

Artifacts(file) == ArtifactsOf(Trained(file))

WholeOrOneAbsent(full) ==
    {EmptyDisk, full} \cup {[full EXCEPT ![p] = Absent] : p \in ArtifactPaths}

InitialDisks == WholeOrOneAbsent(Artifacts(EarlierCsv))

Init ==
    /\ csv \in {DataFile(rows) : rows \in SubSeqsUpTo(MainRows, MaxRows)}
    /\ disk \in InitialDisks
    /\ InitTraining
    /\ InitApp

Next ==
    \/ Preprocess
    \/ FitEvaluate
    \/ SaveModel
    \/ SaveScaler
    \/ SaveFeatureColumns
    \/ SaveNumericCols
    \/ SaveSuburbTE
    \/ SaveAllSuburbs
    \/ RenderApp
    \/ SubmitForm

Spec == Init /\ [][Next]_vars

(***************************************************************************)
(* SpecImpute: the imputation loop over every short series of raw cells in *)
(* one numeric column (the first, a middle and the last of the loop), the  *)
(* other columns holding numbers; any one column may be absent from the    *)
(* header, and the first line may lack its Price.                          *)
(***************************************************************************)
VariedColumns == {"Rooms", "Landsize", "YearBuilt"}

RawNumCells == {NullCell, BadCell} \cup {NumCell(v) : v \in 0..MaxVal}

ImputeRow(col, cell, price) ==
    RawRow(TextCell("A"), TextCell("h"), price, SaleDate,
           [c \in Range(numeric_cols) |-> IF c = col THEN cell ELSE NumCell(1)])

ImputeFiles ==
    LET series == SeqsUpTo(RawNumCells, MaxImputeRows)
        rows(col, q, p1) ==
            Seq_([i \in DOMAIN q |->
                    ImputeRow(col, q[i], IF i = 1 THEN p1 ELSE NumCell(i))])
        without(col, n) ==
            [columns |-> Range(KEEP_COLS) \ {col},
             rows    |-> Seq_([i \in 1..n |->
                           Fn_([c \in Range(KEEP_COLS) \ {col} |->
                                  ImputeRow(col, NullCell, NumCell(i))[c]])])]
    IN  {DataFile(rows(col, q, p1)) :
            col \in VariedColumns, q \in series, p1 \in {NumCell(1), NullCell}}
        \cup {without(col, n) : col \in Range(numeric_cols), n \in 1..MaxImputeRows}

InitImpute ==
    /\ csv \in ImputeFiles
    /\ disk = EmptyDisk
    /\ InitTraining
    /\ InitApp

NextImpute == Preprocess

SpecImpute == InitImpute /\ [][NextImpute]_vars

(***************************************************************************)
(* SpecTE: the target encoder over every short list of (Suburb, Price).    *)
(***************************************************************************)
TESuburbCells == {TextCell("A"), TextCell("B"), NullCell}

TEPriceCells == {NullCell} \cup {NumCell(v) : v \in 1..MaxPrice}

TERows == {RawRow(sb, TextCell("h"), pr, SaleDate, AllNums(NumCell(1))) :
             sb \in TESuburbCells, pr \in TEPriceCells}

InitTE ==
    /\ csv \in {DataFile(rows) : rows \in SeqsUpTo(TERows, MaxRows)}
    /\ disk = EmptyDisk
    /\ InitTraining
    /\ InitApp

NextTE ==
    \/ Preprocess
    \/ EncodeProbe

SpecTE == InitTE /\ [][NextTE]_vars

(***************************************************************************)
(* The claims.                                                             *)
(***************************************************************************)
Submitted == form # NoForm

\* C1: on every submission the vector handed to the scaler, and the one handed
\* to the model, has exactly the names of the loaded feature_columns in that
\* order; a persisted column the hand-built row lacks holds 0, the other
\* columns hold the row's values, and the row's other fields are gone.
AssembledVectorFollowsColumns ==
    Submitted =>
        /\ X_inf.columns = cache.feature_columns
        /\ Len(X_inf.rows) = 1
        /\ DOMAIN X_inf.rows[1] = Range(cache.feature_columns)
        /\ \A k \in Range(cache.feature_columns) :
              X_inf.rows[1][k] = IF k \in Range(row_keys)
                                 THEN FormRow(form, cache.suburb_te)[k]
                                 ELSE Num(0)
        /\ pred =>
              /\ X_model.columns = cache.feature_columns
              /\ DOMAIN X_model.rows[1] = Range(cache.feature_columns)
              /\ \A k \in Range(cache.feature_columns) \ Range(row_keys) :
                    X_model.rows[1][k] = Num(0)

\* a prediction whose vector has a zero-filled column and lacks a field of the row
ZeroFilledAndDropped ==
    /\ pred
    /\ \E k \in Range(X_model.columns) : k \notin Range(row_keys)
    /\ \E k \in Range(row_keys) : k \notin Range(X_model.columns)

\* C2: on every table and every category value, seen, unseen or null, the
\* training-side apply_te and the inference-side encode_suburb both return the
\* mapped value when the value is a key of the mapping, and global_mean otherwise.
EncodersAgreeWithFallback ==
    probe.c # "" =>
        /\ probe.c \in DOMAIN te.mapping =>
              /\ probe.train = te.mapping[probe.c]
              /\ probe.infer = te.mapping[probe.c]
        /\ probe.c \notin DOMAIN te.mapping =>
              /\ probe.train = te.global_mean
              /\ probe.infer = te.global_mean

\* a null encoded against a table that has entries
NullEncodedAsGlobalMean ==
    /\ probe.c = NA
    /\ DOMAIN te.mapping # {}
    /\ probe.train = te.global_mean
    /\ probe.infer = te.global_mean

RECURSIVE PriceSum(_)
PriceSum(S) ==
    IF S = {} THEN 0
    ELSE LET i == CHOOSE j \in S : TRUE IN y[i][1] + PriceSum(S \ {i})

SameSuburb(k) == {j \in DOMAIN df.rows : df.rows[j]["Suburb"] = k}

\* C3: the mapping has an entry for every value of the Suburb column, and for
\* a category of n rows whose prices sum to s = n*m it is
\* (s + 50*global_mean) / (n + 50), global_mean the mean price of all N rows:
\* entry * (n + 50) * N = s * N + 50 * total.
TargetEncodingIsSmoothedMean ==
    (tpc # "start" /\ df.rows # <<>>) =>
        /\ te.smoothing = Num(50)
        /\ te.global_mean[2] > 0
        /\ te.global_mean[1] * Len(y) = te.global_mean[2] * PriceSum(DOMAIN y)
        /\ \A i \in DOMAIN df.rows :
              /\ df.rows[i]["Suburb"] \in DOMAIN te.mapping
              /\ te.mapping[df.rows[i]["Suburb"]][2] > 0
              /\ te.mapping[df.rows[i]["Suburb"]][1]
                     * ((Cardinality(SameSuburb(df.rows[i]["Suburb"])) + 50) * Len(y))
                 = te.mapping[df.rows[i]["Suburb"]][2]
                     * (PriceSum(SameSuburb(df.rows[i]["Suburb"])) * Len(y)
                        + 50 * PriceSum(DOMAIN y))

\* a table with an entry the blend has moved off the category's own mean
BlendedEntry ==
    /\ tpc # "start"
    /\ \E i \in DOMAIN df.rows :
          te.mapping[df.rows[i]["Suburb"]][1] * Cardinality(SameSuburb(df.rows[i]["Suburb"]))
          # te.mapping[df.rows[i]["Suburb"]][2] * PriceSum(SameSuburb(df.rows[i]["Suburb"]))

\* C4: whatever raw fields of a line with a Price are null or unparseable, no
\* value of the matrix handed to the scaler and the model is null.
MatrixHasNoNull == tpc # "start" => ~HasNaN(X)

RawCell(i, col) == LoadFrame(csv).rows[i][col]

Parsed(col) == {j \in DOMAIN df.rows : RawCell(j, col)[1] = "num"}

Below(col, v) == Cardinality({j \in Parsed(col) : RawCell(j, col)[2] < v})

UpTo(col, v) == Cardinality({j \in Parsed(col) : RawCell(j, col)[2] <= v})

\* the value at position p of the column's parsed values in ascending order
AtPosition(col, p) ==
    CHOOSE v \in {RawCell(j, col)[2] : j \in Parsed(col)} :
        Below(col, v) < p /\ p <= UpTo(col, v)

\* twice the median of the column's parsed values
TwiceMedian(col) ==
    AtPosition(col, (Cardinality(Parsed(col)) + 1) \div 2)
    + AtPosition(col, Cardinality(Parsed(col)) \div 2 + 1)

\* C5: for each numeric column and each training row, the _missing flag is 1
\* exactly when the raw cell is null or no number; such a cell holds the median
\* of the column's parsed values, or 0 when there is none; any other cell holds
\* its parsed value.
ImputationIsMedianWithFlag ==
    tpc # "start" =>
        \A col \in Range(numeric_cols) : \A i \in DOMAIN df.rows :
            IF RawCell(i, col)[1] = "num"
            THEN /\ df.rows[i][MissingName(col)] = Num(0)
                 /\ df.rows[i][col] = Num(RawCell(i, col)[2])
            ELSE /\ df.rows[i][MissingName(col)] = Num(1)
                 /\ IF Parsed(col) = {}
                    THEN df.rows[i][col] = Num(0)
                    ELSE /\ df.rows[i][col][2] > 0
                         /\ 2 * df.rows[i][col][1] = TwiceMedian(col) * df.rows[i][col][2]

\* a missing cell filled with the mean of two different middle values
FilledWithMidpoint ==
    /\ tpc # "start"
    /\ \E col \in Range(numeric_cols) : \E i \in DOMAIN df.rows :
          /\ RawCell(i, col)[1] # "num"
          /\ df.rows[i][col][2] = 2

\* C6: for the artifacts one training run persists, the scaler's
\* n_features_in_ equals the length of feature_columns.
ScalerWidthEqualsColumnCount ==
    tpc = "done" =>
        disk[SCALER_PATH].data.n_features_in_ = Len(disk[COLUMNS_PATH].data)

DummyColumns == {DummyName("Type", l) : l \in Range(StrOrder)}

\* C7: for a prediction on the artifacts of the finished training run, the
\* values in the persisted Type_ columns equal those of every training row of
\* the submitted Type.
InferenceOneHotEqualsTraining ==
    (pred /\ tpc = "done" /\ cache = ReadArtifacts(disk)) =>
        \A i \in DOMAIN df.rows :
            df.rows[i]["Type"] = form.prop_type =>
                \A k \in Range(cache.feature_columns) \cap DummyColumns :
                    X_inf.rows[1][k] = X.rows[i][k]

\* C8: the list a submission passes to scaler.transform is the list the loaded
\* scaler was fit on, names and order, it is not empty, and each of its columns
\* is in the assembled vector; the persisted list is the one the persisted
\* scaler was fit on.
TransformColumnsAreFitColumns ==
    /\ (disk[SCALER_PATH].present /\ disk[NUMERIC_COLS_PATH].present) =>
          disk[SCALER_PATH].data.feature_names_in_ = disk[NUMERIC_COLS_PATH].data
    /\ Submitted =>
          /\ transform_cols # <<>>
          /\ transform_cols = cache.scaler.feature_names_in_
          /\ Range(transform_cols) \subseteq Range(X_inf.columns)

\* a prediction on the artifacts of the finished training run
PredictedOnFinishedRun ==
    /\ pred
    /\ tpc = "done"
    /\ cache = ReadArtifacts(disk)
    /\ transform_cols = numeric_cols

\* C9: the artifacts are loaded at most once; once loaded, no step changes
\* them, and a run of the script leaves the directory alone.
LoadedOnceAndNeverChanged ==
    [][ /\ loads' <= 1
        /\ cache.loaded => (cache' = cache /\ loads' = loads)
        /\ app_vars' # app_vars => disk' = disk ]_vars

\* a prediction on cached artifacts after the directory has changed
PredictedOnCacheAfterRetraining ==
    /\ pred
    /\ loads = 1
    /\ disk[COLUMNS_PATH].present
    /\ disk[COLUMNS_PATH].data # cache.feature_columns

\* C10 as stated: after a first run that found a file missing, the process
\* never computes a prediction.
NoPredictionAfterFailedStart == startup = "failed" => ~pred

SomeFileMissing == \E p \in ArtifactPaths : ~disk[p].present

\* C10 amended: a run that loads while a file is missing fails before the form
\* is shown and computes no prediction, and nothing is predicted or read from
\* the form before some run has found all six files.
FailedLoadShowsNothing ==
    /\ [](~cache.loaded => (~pred /\ ~form_shown /\ form = NoForm))
    /\ [][ (~cache.loaded /\ SomeFileMissing) =>
              (~cache'.loaded /\ run' \in {run, "load_error"}) ]_vars

\* the first run failed on a directory that lacks exactly one file
FailedStartOnOneMissingFile ==
    /\ startup = "failed"
    /\ run = "load_error"
    /\ Cardinality({p \in ArtifactPaths : ~disk[p].present}) = 1

====
